---- MODULE Spec2Model ----
(***************************************************************************)
(* The request execution engine of the Amazon KDP scraper                  *)
(* (src/src/main.py, class AmazonKDPScraper): one logical fetch            *)
(* (_make_request) with its retry loop, its waits, the CAPTCHA handler,    *)
(* the adaptive delay, the intelligent backoff and the session reset.      *)
(*                                                                         *)
(* Time is counted in tenths of a second, so that 0.8 x requestDelay is an *)
(* integer.  random.uniform(a, b) is a + (b - a) * u for a draw u; the     *)
(* draws are taken from Draws (the two ends of the range).                 *)
(***************************************************************************)
EXTENDS Integers, Sequences, FiniteSets, TLC

\* ------------------------------------------------------------ bounds
\* max_retries of a fetch is drawn from 0..MaxRetriesBound
MaxRetriesBound == 4
\* number of logical fetches started on one scraper
MaxFetches == 2

\* ------------------------------------------------------------ constants
\* config.get('requestDelay', 2)
RequestDelay == 2
\* base_delay = 2.0 of _adaptive_delay_strategy
BaseDelay == 2
\* min(delay, 600)
MaxDelay == 600
\* self._last_error_code = None, self._last_success_time = None
None == 0

\* n seconds, in tenths of a second
Sec(n) == n * 10

\* the draws u of random.uniform(a, b) = a + (b - a) * u
Draws == {0, 1}

Uniform(a, b, u) == a + (b - a) * u

Min(a, b) == IF a <= b THEN a ELSE b

RECURSIVE Pow(_, _)
Pow(b, e) == IF e = 0 THEN 1 ELSE b * Pow(b, e - 1)

\* ------------------------------------------------------------ responses
\* status codes a server answers with; 500 stands for every status the
\* dispatch of _make_request does not name
Statuses == {200, 503, 429, 403, 404, 500}

\* cookie jars: functions from a set of cookie names to values
CookieNames == {"session-id", "ubid-main"}

EmptyJar == [n \in {} |-> 0]

UpdateReplacing(jar, got) == got

\* dict.update: received keys overwrite, the other keys stay
Update(jar, got) ==
    [n \in (DOMAIN jar) \cup (DOMAIN got) |->
        IF n \in DOMAIN got THEN got[n] ELSE jar[n]]

\* the cookie jars a response can carry
ResponseJars ==
    { EmptyJar,
      [n \in {"session-id"} |-> 1],
      [n \in CookieNames |-> 2] }

\* what _is_captcha_page looks at: the body, the final URL and the headers
Pages ==
    { [content |-> "book page", url |-> "/dp/B000", headers |-> "plain"],
      [content |-> "robot check", url |-> "/dp/B000", headers |-> "plain"],
      [content |-> "enter the characters you see below", url |-> "/dp/B000",
       headers |-> "plain"],
      [content |-> "book page", url |-> "/errors/validatecaptcha",
       headers |-> "plain"],
      [content |-> "book page", url |-> "/dp/B000?ref=cs_503_logo",
       headers |-> "plain"],
      [content |-> "book page", url |-> "/dp/B000", headers |-> "x-captcha"] }

PlainPage == [content |-> "book page", url |-> "/dp/B000", headers |-> "plain"]

RobotCheckPage ==
    [content |-> "robot check", url |-> "/dp/B000", headers |-> "plain"]

IsCaptchaPageContentOnly(r) ==
    r.page.content \in {"robot check", "captcha"}

\* _is_captcha_page: any of the five indicators
IsCaptchaPage(r) ==
    LET content_has_captcha ==
            r.page.content \in {"robot check", "captcha"}
        url_has_captcha == r.page.url \in {"/errors/validatecaptcha"}
        amazon_captcha ==
            r.page.url \in {"/errors/validatecaptcha", "/dp/B000?ref=cs_503_logo"}
        headers_captcha == r.page.headers = "x-captcha"
        amazon_blocking ==
            r.page.content = "enter the characters you see below"
    IN  content_has_captcha \/ url_has_captcha \/ amazon_captcha
           \/ headers_captcha \/ amazon_blocking

\* Retry-After header values: a sequence of characters, or no header at all.
\* "sup2" is the character SUPERSCRIPT TWO, a digit for str.isdigit that
\* int() does not parse.
NoHeader == [present |-> FALSE, text |-> << >>]

Header(t) == [present |-> TRUE, text |-> t]

RetryAfters ==
    { NoHeader, Header(<< >>), Header(<<"0">>), Header(<<"1", "2">>),
      Header(<<"x">>), Header(<<"sup2">>) }

DecimalDigits == {"0", "1", "2"}

\* str.isdigit: non-empty and every character a digit
IsDigit(t) ==
    /\ Len(t) > 0
    /\ \A i \in 1..Len(t) : t[i] \in DecimalDigits \cup {"sup2"}

\* int(str) succeeds on decimal digits only
IntParses(t) == Len(t) > 0 /\ \A i \in 1..Len(t) : t[i] \in DecimalDigits

DigitValue(c) == IF c = "0" THEN 0 ELSE IF c = "1" THEN 1 ELSE 2

RECURSIVE ParseInt(_)
ParseInt(t) ==
    IF Len(t) = 0 THEN 0
    ELSE 10 * ParseInt(SubSeq(t, 1, Len(t) - 1)) + DigitValue(t[Len(t)])

\* no Retry-After value
NoRetryAfter == -1

NoResponse ==
    [status |-> None, page |-> PlainPage, retry_after |-> NoHeader,
     cookies |-> EmptyJar]

\* the answers client.get can return: every status as a plain page and as a
\* CAPTCHA page, every indicator of _is_captcha_page, every Retry-After
\* header on a 429 and every cookie jar on a 200
Responses ==
    { [status |-> s, page |-> p, retry_after |-> NoHeader, cookies |-> EmptyJar] :
        s \in Statuses, p \in {PlainPage, RobotCheckPage} }
    \cup
    { [status |-> 200, page |-> p, retry_after |-> NoHeader, cookies |-> EmptyJar] :
        p \in Pages }
    \cup
    { [status |-> 429, page |-> PlainPage, retry_after |-> h, cookies |-> EmptyJar] :
        h \in RetryAfters }
    \cup
    { [status |-> 200, page |-> PlainPage, retry_after |-> NoHeader, cookies |-> c] :
        c \in ResponseJars }

\* ------------------------------------------------------------ headers
\* a user-agent string: the platform in parentheses and the product tokens
\* "name/version" around it
Product(name, version) == [name |-> name, version |-> version]

Agent(platform, products) == [platform |-> platform, products |-> products]

ChromeAgent(platform, version) ==
    Agent(platform, <<Product("Mozilla", "5.0"), Product("AppleWebKit", "537.36"),
                      Product("Chrome", version), Product("Safari", "537.36")>>)

EdgeAgent(platform, version) ==
    Agent(platform, <<Product("Mozilla", "5.0"), Product("AppleWebKit", "537.36"),
                      Product("Chrome", version), Product("Safari", "537.36"),
                      Product("Edg", version)>>)

FirefoxAgent(platform, version) ==
    Agent(platform, <<Product("Mozilla", "5.0"), Product("Gecko", "20100101"),
                      Product("Firefox", version)>>)

SafariAgent(platform, version) ==
    Agent(platform, <<Product("Mozilla", "5.0"), Product("AppleWebKit", "605.1.15"),
                      Product("Version", version), Product("Safari", "605.1.15")>>)

\* self.user_agents
user_agents ==
    { ChromeAgent("Windows", "119"), ChromeAgent("Windows", "118"),
      ChromeAgent("Windows", "117"),
      ChromeAgent("Macintosh", "119"), ChromeAgent("Macintosh", "118"),
      FirefoxAgent("Windows", "119"), FirefoxAgent("Windows", "118"),
      FirefoxAgent("Macintosh", "119"),
      SafariAgent("Macintosh", "17.1"), SafariAgent("Macintosh", "16.6"),
      EdgeAgent("Windows", "119"), EdgeAgent("Windows", "118") }

\* 'Chrome' in user_agent, 'Firefox' in user_agent
Contains(user_agent, name) ==
    \E i \in DOMAIN user_agent.products : user_agent.products[i].name = name

\* the url argument, by what _get_realistic_headers tests of it: whether it
\* is given, and whether it contains 'amazon.com', '/s?' and '/dp/'
NoUrl == [given |-> FALSE, amazon |-> FALSE, search |-> FALSE, product |-> FALSE]

Url(amazon, search, product) ==
    [given |-> TRUE, amazon |-> amazon, search |-> search, product |-> product]

Urls ==
    { NoUrl, Url(FALSE, FALSE, FALSE), Url(TRUE, FALSE, FALSE),
      Url(TRUE, TRUE, FALSE), Url(TRUE, FALSE, TRUE), Url(TRUE, TRUE, TRUE) }

AcceptLanguages == {"en-US", "en-US,fr", "en-GB,en-US", "en-US,es"}

SecFetchSites == {"none", "same-origin", "cross-site"}

FirefoxSecFetchSitesUnrestricted == SecFetchSites

\* line 481: random.choice(['none', 'same-origin'])
FirefoxSecFetchSites == {"none", "same-origin"}

CacheControls == {"max-age=0", "no-cache"}

Referrers == {"/", "/gp/bestsellers/books", "/books-used-books-textbooks"}

ChromeVersions == {"119", "118", "117"}

Platforms == {"Windows", "macOS", "Linux"}

Archs == {"x86", "arm"}

\* the header values are sequences of strings: the literal of the source, or
\* its fixed text followed by the values formatted into it
Literal(text) == <<text>>

\* lines 432-450
base_headers(user_agent, language, site, cache) ==
    [n \in {"User-Agent", "Accept", "Accept-Language", "Accept-Encoding",
            "Connection", "Upgrade-Insecure-Requests", "Sec-Fetch-Dest",
            "Sec-Fetch-Mode", "Sec-Fetch-Site", "Sec-Fetch-User",
            "Cache-Control", "DNT"} |->
        IF n = "User-Agent"
          THEN <<user_agent.platform>> \o
               [i \in DOMAIN user_agent.products |-> user_agent.products[i].name]
        ELSE IF n = "Accept" THEN Literal("text/html,image/avif,image/webp,image/apng")
        ELSE IF n = "Accept-Language" THEN Literal(language)
        ELSE IF n = "Accept-Encoding" THEN Literal("gzip, deflate, br")
        ELSE IF n = "Connection" THEN Literal("keep-alive")
        ELSE IF n = "Upgrade-Insecure-Requests" THEN Literal("1")
        ELSE IF n = "Sec-Fetch-Dest" THEN Literal("document")
        ELSE IF n = "Sec-Fetch-Mode" THEN Literal("navigate")
        ELSE IF n = "Sec-Fetch-Site" THEN Literal(site)
        ELSE IF n = "Sec-Fetch-User" THEN Literal("?1")
        ELSE IF n = "Cache-Control" THEN Literal(cache)
        ELSE Literal("1")]

\* lines 453-465: the referrer of the navigation context
WithReferer(headers, url, referrer) ==
    IF url.given /\ url.amazon
      THEN Update(headers,
             [n \in {"Referer"} |->
                IF url.search THEN Literal("/")
                ELSE IF url.product THEN Literal("/s?k=books")
                ELSE Literal(referrer)])
      ELSE headers

\* lines 470-477: the headers of a Chromium browser
ChromeHeaders(chrome_version, platform, arch) ==
    [n \in {"sec-ch-ua", "sec-ch-ua-mobile", "sec-ch-ua-platform",
            "sec-ch-ua-arch", "sec-ch-ua-bitness",
            "sec-ch-ua-full-version-list"} |->
        IF n = "sec-ch-ua" THEN <<"Google Chrome", chrome_version>>
        ELSE IF n = "sec-ch-ua-mobile" THEN Literal("?0")
        ELSE IF n = "sec-ch-ua-platform" THEN Literal(platform)
        ELSE IF n = "sec-ch-ua-arch" THEN Literal(arch)
        ELSE IF n = "sec-ch-ua-bitness" THEN Literal("64")
        ELSE <<"Google Chrome", chrome_version, "0.0.0">>]

\* lines 479-482: the headers of Firefox
FirefoxHeaders(firefox_site) ==
    [n \in {"Accept", "Sec-Fetch-Site"} |->
        IF n = "Accept" THEN Literal("text/html,image/avif,image/webp")
        ELSE Literal(firefox_site)]

\* lines 468-482
WithBrowserHeaders(headers, user_agent, version, platform, arch, site) ==
    IF Contains(user_agent, "Chrome")
      THEN Update(headers, ChromeHeaders(version, platform, arch))
    ELSE IF Contains(user_agent, "Firefox")
      THEN Update(headers, FirefoxHeaders(site))
    ELSE headers

\* dict.pop(name, None) for every name of the set
Pop(headers, names) == [n \in (DOMAIN headers) \ names |-> headers[n]]

\* lines 485-490: the headers whose "random.random() < p" has come true
OmittableHeaders == {"Cache-Control", "Upgrade-Insecure-Requests", "DNT"}

\* no call of _get_realistic_headers made
NoAgent == Agent("none", << >>)

NotGenerated == [url |-> NoUrl, user_agent |-> NoAgent, headers |-> EmptyJar]

\* ------------------------------------------------------------ state
VARIABLES
    \* fields of the scraper object
    consecutive_failures,   \* self._consecutive_failures
    last_error_code,        \* self._last_error_code (None or a status)
    session_cookies,        \* self._session_cookies
    last_success_time,      \* self._last_success_time (None or a time)
    client_open,            \* self.client is an open httpx client
    \* frame of the running _make_request call
    pc,                     \* position in _make_request
    max_retries,            \* its parameter
    attempt,                \* loop variable of "for attempt in range(...)"
    captcha_attempts,       \* local captcha_attempts
    response,               \* the response the fetch handles or has returned
    result,                 \* "pending", "response", "None" or "raised"
    \* history
    fetches,                \* logical fetches started so far
    gets,                   \* HTTP GETs issued by the running fetch
    sleeps,                 \* sleeps of the running attempt: those before its
                            \* GET, then those after its response
    resets,                 \* session resets performed so far
    outcome,                \* class of the last attempt's outcome
    honoured,               \* the Retry-After value the last attempt has
                            \* slept on, or NoRetryAfter
    counted,                \* increments of consecutive_failures since the
                            \* last GET of the running fetch left
    failures_at_call,       \* self._consecutive_failures when the running
                            \* fetch was called
    seen503,                \* non-CAPTCHA 503 responses of the running fetch
    delays503,              \* adaptive delays of the running fetch computed
                            \* with the 503 formula
    \* search_books and its configuration
    session_warmed,         \* hasattr(self, '_session_warmed')
    include_reviews,        \* config.get('includeReviews', False)
    awaiting,               \* the fetch the running search_books awaits, or
                            \* how its last call has ended
    links,                  \* book links the running search_books has not
                            \* visited yet
    books,                  \* length of its list "books"
    searches,               \* search_books calls started so far
    warmups,                \* _warm_up_session calls started so far
    home_fetches,           \* fetches of the site root started so far
    books_fetches,          \* fetches of the books section started so far
    \* a direct call of _get_realistic_headers
    generated               \* its arguments, its choices and the dict it
                            \* has returned

scraper == <<consecutive_failures, last_error_code, session_cookies,
             last_success_time, client_open>>

frame == <<pc, max_retries, attempt, captcha_attempts, response, result>>

history == <<fetches, gets, sleeps, resets, outcome, honoured, counted,
             failures_at_call, seen503, delays503>>

search == <<session_warmed, include_reviews, awaiting, links, books, searches,
            warmups, home_fetches, books_fetches>>

vars == <<scraper, frame, history, search, generated>>

\* the part of the state the helpers of _make_request change
Session ==
    [cf |-> consecutive_failures, err |-> last_error_code,
     cookies |-> session_cookies, open |-> client_open,
     sleeps |-> sleeps, resets |-> resets, counted |-> counted,
     delays503 |-> delays503]

Commit(s) ==
    /\ consecutive_failures' = s.cf
    /\ last_error_code' = s.err
    /\ session_cookies' = s.cookies
    /\ client_open' = s.open
    /\ sleeps' = s.sleeps
    /\ resets' = s.resets
    /\ counted' = s.counted
    /\ delays503' = s.delays503

Slept(s, kind, secs, code, idx) ==
    [s EXCEPT !.sleeps =
        Append(@, [kind |-> kind, secs |-> secs, code |-> code, idx |-> idx])]

\* ------------------------------------------------------------ helpers
\* self._consecutive_failures += 1
Failed(s) == [s EXCEPT !.cf = @ + 1, !.counted = @ + 1]

\* await self.client.aclose()
Aclose(open) == FALSE

\* _setup_http_client: its body is "pass"
SetupHttpClient(open) == open

ResetSessionStrategyZeroing(s) ==
    [s EXCEPT !.cookies = EmptyJar,
              !.err = None,
              !.cf = 0,
              !.open = SetupHttpClient(Aclose(@)),
              !.resets = @ + 1]

ResetSessionStrategyKeepingCookies(s) ==
    [s EXCEPT !.err = None,
              !.open = SetupHttpClient(Aclose(@)),
              !.resets = @ + 1]

ResetSessionStrategyKeepingError(s) ==
    [s EXCEPT !.cookies = EmptyJar,
              !.open = SetupHttpClient(Aclose(@)),
              !.resets = @ + 1]

\* _reset_session_strategy
ResetSessionStrategy(s) ==
    [s EXCEPT !.cookies = EmptyJar,
              !.err = None,
              !.open = SetupHttpClient(Aclose(@)),
              !.resets = @ + 1]

\* the delay of _intelligent_backoff
BackoffDelay(n, u) ==
    IF n <= 2 THEN Uniform(Sec(5), Sec(15), u)
    ELSE IF n <= 5 THEN Uniform(Sec(30), Sec(90), u)
    ELSE Uniform(Sec(300), Sec(600), u)

BackoffResetsHeavyOnly(n) == n > 5

BackoffResetsWholeTier(n) == n >= 3

\* whether _intelligent_backoff(n) calls _reset_session_strategy
BackoffResets(n) ==
    IF n <= 2 THEN FALSE
    ELSE IF n <= 5 THEN n = 3
    ELSE TRUE

\* _intelligent_backoff(consecutive_failures)
IntelligentBackoff(s, n, u) ==
    LET s1 == IF BackoffResets(n) THEN ResetSessionStrategy(s) ELSE s
    IN  Slept(s1, "backoff", BackoffDelay(n, u), None, n)

\* the delay of _adaptive_delay_strategy before and after min(delay, 600)
AdaptiveRaw(idx, code, u) ==
    IF code = 503 THEN Sec(BaseDelay) * Pow(3, idx) + Uniform(Sec(10), Sec(30), u)
    ELSE IF code = 429 THEN Sec(BaseDelay) * Pow(2, idx) + Uniform(Sec(15), Sec(45), u)
    ELSE IF code = 403 THEN Sec(BaseDelay) * Pow(4, idx) + Uniform(Sec(30), Sec(90), u)
    ELSE Sec(BaseDelay) * Pow(2, idx) + Uniform(Sec(5), Sec(15), u)

AdaptiveDelayUncapped(idx, code, u) == AdaptiveRaw(idx, code, u)

AdaptiveDelay(idx, code, u) == Min(AdaptiveRaw(idx, code, u), Sec(MaxDelay))

\* _adaptive_delay_strategy(attempt, error_code)
AdaptiveDelayStrategy(s, idx, code, u) ==
    LET s1 == Slept(s, "adaptive", AdaptiveDelay(idx, code, u), code, idx)
    IN  [s1 EXCEPT !.delays503 = IF code = 503 THEN @ + 1 ELSE @]

RetryAfterWaitNoBuffer(r, u) == Sec(r)

\* line 265: delay = int(retry_after) + random.uniform(5, 15)
RetryAfterWait(r, u) == Sec(r) + Uniform(Sec(5), Sec(15), u)

RetryErrorCodeNone == None

RetryErrorCodeOfOutcome ==
    IF outcome = "503" THEN 503
    ELSE IF outcome = "429" THEN 429
    ELSE IF outcome = "403" THEN 403
    ELSE None

\* line 205: the error code a retry passes to _adaptive_delay_strategy
RetryErrorCode == last_error_code

CaptchaDelayFlat(idx, u) == Uniform(Sec(10), Sec(20), u)

\* the delay of _handle_captcha_scenario
CaptchaDelay(idx, u) ==
    IF idx = 0 THEN Uniform(Sec(10), Sec(20), u)
    ELSE IF idx = 1 THEN Uniform(Sec(30), Sec(60), u)
    ELSE IF idx = 2 THEN Uniform(Sec(120), Sec(300), u)
    ELSE Uniform(Sec(600), Sec(1200), u)

CaptchaContinueUpToTwo(idx) == idx < 2

CaptchaContinueUpToThree(idx) == idx <= 3

CaptchaContinueAlways(idx) == TRUE

\* the value _handle_captcha_scenario returns: "return attempt < 3"
CaptchaContinue(idx) == idx < 3

\* _handle_captcha_scenario(response, attempt): its wait
HandleCaptchaScenario(s, idx, u) ==
    Slept(s, "captcha", CaptchaDelay(idx, u), None, idx)

HumanDelayFromHalf(u, pause) ==
    Uniform((Sec(RequestDelay) * 5) \div 10, Sec(RequestDelay) * 2, u) + pause

\* lines 208-213: the human-like delay before every GET, between 0.8 and
\* 2.0 times the request delay, plus the longer pause
HumanDelay(u, pause) ==
    Uniform((Sec(RequestDelay) * 8) \div 10, Sec(RequestDelay) * 2, u) + pause

\* the "10% chance of longer pause": none, or uniform(5, 15)
Pauses == {0} \cup { Uniform(Sec(5), Sec(15), u) : u \in Draws }

\* "attempt < max_retries - 1": attempts remain after this one
AttemptsRemain == attempt < max_retries - 1

TryCoversUpToGet(line) == line \in 200..216

\* the try block of _make_request spans lines 199..305: an exception raised
\* at a line inside it reaches the handler of line 306
TryCovers(line) == line \in 200..305

\* ------------------------------------------------------------ Init
\* the scraper after __init__, no call made yet
Fresh ==
    /\ consecutive_failures = 0
    /\ last_error_code = None
    /\ session_cookies = EmptyJar
    /\ last_success_time = None
    /\ client_open = TRUE
    /\ pc = "idle"
    /\ max_retries = 0
    /\ attempt = 0
    /\ captcha_attempts = 0
    /\ response = NoResponse
    /\ result = "pending"
    /\ fetches = 0
    /\ gets = 0
    /\ sleeps = << >>
    /\ resets = 0
    /\ outcome = "none"
    /\ honoured = NoRetryAfter
    /\ counted = 0
    /\ failures_at_call = 0
    /\ seen503 = 0
    /\ delays503 = 0
    /\ session_warmed = FALSE
    /\ awaiting = "none"
    /\ links = 0
    /\ books = 0
    /\ searches = 0
    /\ warmups = 0
    /\ home_fetches = 0
    /\ books_fetches = 0
    /\ generated = NotGenerated

\* a scraper whose configuration keeps the default of includeReviews
Init ==
    /\ Fresh
    /\ include_reviews = FALSE

ContinueSameAttempt ==
    /\ pc' = "loop"
    /\ attempt' = attempt
    /\ result' = result
    /\ response' = NoResponse

\* ------------------------------------------------------------ control
\* "continue": on to the next iteration of the for loop
Continue ==
    /\ pc' = "loop"
    /\ attempt' = attempt + 1
    /\ result' = result
    /\ response' = NoResponse

\* "return None"
ReturnNone(r) ==
    /\ pc' = "done"
    /\ attempt' = attempt
    /\ result' = "None"
    /\ response' = r

\* an exception raised at a line of _make_request: caught by the handler of
\* line 306 when the try block covers the line, else it leaves the call
Raise(line) ==
    /\ attempt' = attempt
    /\ response' = NoResponse
    /\ IF TryCovers(line)
         THEN pc' = "except" /\ result' = result
         ELSE pc' = "done" /\ result' = "raised"

\* datetime.now(): the logical time is the number of the running fetch
Now == fetches

CallKeepingCaptchaAttempts(mr, slept) ==
    /\ pc' = "loop"
    /\ max_retries' = mr
    /\ attempt' = 0
    /\ captcha_attempts' = captcha_attempts
    /\ response' = NoResponse
    /\ result' = "pending"
    /\ fetches' = fetches + 1
    /\ failures_at_call' = consecutive_failures
    /\ gets' = 0
    /\ sleeps' = slept
    /\ resets' = 0
    /\ outcome' = "none"
    /\ honoured' = NoRetryAfter
    /\ counted' = 0
    /\ seen503' = 0
    /\ delays503' = 0
    /\ UNCHANGED scraper

\* ------------------------------------------------------------ actions
\* line 193-196: _make_request(url, max_retries) is entered, after the sleeps
\* "slept" of its caller
Call(mr, slept) ==
    /\ pc' = "loop"
    /\ max_retries' = mr
    /\ attempt' = 0
    /\ captcha_attempts' = 0
    /\ response' = NoResponse
    /\ result' = "pending"
    /\ fetches' = fetches + 1
    /\ failures_at_call' = consecutive_failures
    /\ gets' = 0
    /\ sleeps' = slept
    /\ resets' = 0
    /\ outcome' = "none"
    /\ honoured' = NoRetryAfter
    /\ counted' = 0
    /\ seen503' = 0
    /\ delays503' = 0
    /\ UNCHANGED scraper

\* a caller awaits self._make_request(url, max_retries)
MakeRequest(mr) ==
    /\ pc \in {"idle", "done"}
    /\ fetches < MaxFetches
    /\ Call(mr, << >>)
    /\ UNCHANGED <<search, generated>>

\* lines 198-215: the next iteration of the loop up to the GET: the adaptive
\* delay of a retry, then the human-like delay
BeginAttempt ==
    /\ pc = "loop"
    /\ attempt < max_retries
    /\ \E u1 \in Draws, u2 \in Draws, pause \in Pauses :
         LET s0 == [Session EXCEPT !.sleeps = << >>]
             s1 == IF attempt > 0
                     THEN AdaptiveDelayStrategy(s0, attempt, RetryErrorCode, u1)
                     ELSE s0
             s2 == Slept(s1, "human", HumanDelay(u2, pause), None, attempt)
         IN  Commit(s2)
    /\ pc' = "get"
    /\ UNCHANGED <<last_success_time, max_retries, attempt, captcha_attempts,
                   response, result, fetches,
                   failures_at_call, gets, outcome, honoured, seen503>>
    /\ UNCHANGED <<search, generated>>

\* line 217: await self.client.get(...): the request leaves
SendGet ==
    /\ pc = "get"
    /\ pc' = "wait"
    /\ gets' = gets + 1
    /\ sleeps' = << >>
    /\ counted' = 0
    /\ UNCHANGED <<scraper, max_retries, attempt, captcha_attempts, response,
                   result, fetches,
                   failures_at_call, resets, outcome, honoured, seen503,
                   delays503>>
    /\ UNCHANGED <<search, generated>>

\* the answers of the site during a scraping run: every status as a plain
\* page, a CAPTCHA page and a page that sets a cookie
RunResponses ==
    { [status |-> s, page |-> PlainPage, retry_after |-> NoHeader,
       cookies |-> EmptyJar] : s \in Statuses }
    \cup
    { [status |-> 200, page |-> RobotCheckPage, retry_after |-> NoHeader,
       cookies |-> EmptyJar],
      [status |-> 200, page |-> PlainPage, retry_after |-> NoHeader,
       cookies |-> [n \in {"session-id"} |-> 1]] }

\* the answers client.get can return to the running fetch: any of Responses
\* to a fetch called directly, those of a run to a fetch of search_books
Served == IF awaiting = "none" THEN Responses ELSE RunResponses

\* line 217: response = await self.client.get(...) returns r
Get(r) ==
    /\ pc = "wait"
    /\ client_open
    /\ r \in Served
    /\ gets' = gets

\* line 217: client.get raises: a transport error, or the client is closed
ClientGetRaises ==
    /\ pc = "wait"
    /\ Raise(217)
    /\ honoured' = NoRetryAfter
    /\ UNCHANGED <<scraper, max_retries, captcha_attempts, fetches,
                   failures_at_call, gets,
                   sleeps, resets, outcome, counted, seen503, delays503>>
    /\ UNCHANGED <<search, generated>>

\* line 220: self._last_error_code = response.status_code
Received(r) == [Session EXCEPT !.err = r.status, !.sleeps = << >>]

OnCaptchaCountingTwice ==
    \E r \in Responses :
      /\ Get(r)
      /\ IsCaptchaPage(r)
      /\ captcha_attempts' = captcha_attempts + 1
      /\ \E u \in Draws :
           LET s0 == IF r.status = 403 THEN Failed(Received(r)) ELSE Received(r)
               s1 == HandleCaptchaScenario(s0, captcha_attempts' - 1, u)
               should_continue == CaptchaContinue(captcha_attempts' - 1)
           IN  IF should_continue /\ AttemptsRemain
                 THEN /\ Commit(Failed([s1 EXCEPT !.cookies = EmptyJar]))
                      /\ Continue
                 ELSE /\ Commit(Failed(s1))
                      /\ ReturnNone(r)
      /\ outcome' = "captcha"
      /\ honoured' = NoRetryAfter
      /\ UNCHANGED <<last_success_time, max_retries, fetches,
                     failures_at_call, seen503>>
      /\ UNCHANGED <<search, generated>>

\* lines 217-235: the answer is a CAPTCHA page
OnCaptcha ==
    \E r \in Responses :
      /\ Get(r)
      /\ IsCaptchaPage(r)
      /\ captcha_attempts' = captcha_attempts + 1
      /\ \E u \in Draws :
           LET s1 == HandleCaptchaScenario(Received(r), captcha_attempts' - 1, u)
               should_continue == CaptchaContinue(captcha_attempts' - 1)
           IN  IF should_continue /\ AttemptsRemain
                 THEN /\ Commit(Failed([s1 EXCEPT !.cookies = EmptyJar]))
                      /\ Continue
                 ELSE /\ Commit(Failed(s1))
                      /\ ReturnNone(r)
      /\ outcome' = "captcha"
      /\ honoured' = NoRetryAfter
      /\ UNCHANGED <<last_success_time, max_retries, fetches,
                     failures_at_call, seen503>>
      /\ UNCHANGED <<search, generated>>

\* lines 217-246: success
On200 ==
    \E r \in Responses :
      /\ Get(r)
      /\ ~IsCaptchaPage(r)
      /\ r.status = 200
      /\ Commit([Received(r) EXCEPT
                   !.err = None,
                   !.cf = 0,
                   !.cookies = IF r.cookies # EmptyJar
                                 THEN Update(@, r.cookies)
                                 ELSE @])
      /\ last_success_time' = Now
      /\ pc' = "done"
      /\ result' = "response"
      /\ response' = r
      /\ outcome' = "ok"
      /\ honoured' = NoRetryAfter
      /\ UNCHANGED <<max_retries, attempt, captcha_attempts, fetches,
                     failures_at_call, seen503>>
      /\ UNCHANGED <<search, generated>>

On503BackoffFromTwo ==
    \E r \in Responses :
      /\ Get(r)
      /\ ~IsCaptchaPage(r)
      /\ r.status = 503
      /\ \E u1 \in Draws, u2 \in Draws :
           LET s1 == Failed(Received(r))
               s2 == IF AttemptsRemain
                       THEN AdaptiveDelayStrategy(s1, attempt, 503, u1)
                       ELSE s1
               s3 == IF AttemptsRemain /\ s2.cf >= 2
                       THEN IntelligentBackoff(s2, s2.cf, u2)
                       ELSE s2
           IN  Commit(s3)
      /\ Continue
      /\ outcome' = "503"
      /\ honoured' = NoRetryAfter
      /\ seen503' = seen503 + 1
      /\ UNCHANGED <<last_success_time, max_retries, captcha_attempts, fetches,
                     failures_at_call>>
      /\ UNCHANGED <<search, generated>>

\* lines 217-257: service unavailable
On503 ==
    \E r \in Responses :
      /\ Get(r)
      /\ ~IsCaptchaPage(r)
      /\ r.status = 503
      /\ \E u1 \in Draws, u2 \in Draws :
           LET s1 == Failed(Received(r))
               s2 == IF AttemptsRemain
                       THEN AdaptiveDelayStrategy(s1, attempt, 503, u1)
                       ELSE s1
               s3 == IF AttemptsRemain /\ s2.cf >= 3
                       THEN IntelligentBackoff(s2, s2.cf, u2)
                       ELSE s2
           IN  Commit(s3)
      /\ Continue
      /\ outcome' = "503"
      /\ honoured' = NoRetryAfter
      /\ seen503' = seen503 + 1
      /\ UNCHANGED <<last_success_time, max_retries, captcha_attempts, fetches,
                     failures_at_call>>
      /\ UNCHANGED <<search, generated>>

\* lines 217-270: rate limited; int(retry_after) raises on a digit string
\* that is no decimal number
On429 ==
    \E r \in Responses :
      /\ Get(r)
      /\ ~IsCaptchaPage(r)
      /\ r.status = 429
      /\ LET s1 == Failed(Received(r))
             retry_after == r.retry_after
         IN  IF retry_after.present /\ retry_after.text # << >>
                  /\ IsDigit(retry_after.text)
               THEN IF IntParses(retry_after.text)
                      THEN /\ \E u \in Draws :
                                Commit(Slept(s1, "retry_after",
                                    RetryAfterWait(ParseInt(retry_after.text), u),
                                    429, attempt))
                           /\ honoured' = ParseInt(retry_after.text)
                           /\ Continue
                      ELSE /\ Commit(s1)
                           /\ honoured' = NoRetryAfter
                           /\ Raise(265)
               ELSE /\ \E u \in Draws :
                         Commit(AdaptiveDelayStrategy(s1, attempt, 429, u))
                    /\ honoured' = NoRetryAfter
                    /\ Continue
      /\ outcome' = "429"
      /\ UNCHANGED <<last_success_time, max_retries, captcha_attempts, fetches,
                     failures_at_call,
                     seen503>>
      /\ UNCHANGED <<search, generated>>

\* lines 217-293: forbidden; the second CAPTCHA test of lines 277-285 sees
\* the response the first test of line 223 has let through
On403 ==
    \E r \in Responses :
      /\ Get(r)
      /\ ~IsCaptchaPage(r)
      /\ r.status = 403
      /\ \E u1 \in Draws, u2 \in Draws :
           LET s1 == Failed(Received(r))
               s2 == IF AttemptsRemain
                       THEN AdaptiveDelayStrategy(s1, attempt, 403, u1)
                       ELSE s1
               s3 == IF AttemptsRemain /\ s2.cf >= 2
                       THEN IntelligentBackoff(s2, s2.cf, u2)
                       ELSE s2
               c1 == HandleCaptchaScenario(s1, captcha_attempts, u1)
           IN  IF IsCaptchaPage(r)
                 THEN /\ captcha_attempts' = captcha_attempts + 1
                      /\ IF CaptchaContinue(captcha_attempts) /\ AttemptsRemain
                           THEN /\ Commit([c1 EXCEPT !.cookies = EmptyJar])
                                /\ Continue
                           ELSE /\ Commit(c1)
                                /\ ReturnNone(r)
                 ELSE /\ captcha_attempts' = captcha_attempts
                      /\ Commit(s3)
                      /\ Continue
      /\ outcome' = "403"
      /\ honoured' = NoRetryAfter
      /\ UNCHANGED <<last_success_time, max_retries, fetches,
                     failures_at_call, seen503>>
      /\ UNCHANGED <<search, generated>>

On404Retries ==
    \E r \in Responses :
      /\ Get(r)
      /\ ~IsCaptchaPage(r)
      /\ r.status = 404
      /\ Commit(Received(r))
      /\ Continue
      /\ outcome' = "404"
      /\ honoured' = NoRetryAfter
      /\ UNCHANGED <<last_success_time, max_retries, captcha_attempts, fetches,
                     failures_at_call,
                     seen503>>
      /\ UNCHANGED <<search, generated>>

On404Counting ==
    \E r \in Responses :
      /\ Get(r)
      /\ ~IsCaptchaPage(r)
      /\ r.status = 404
      /\ Commit(Failed(Received(r)))
      /\ ReturnNone(r)
      /\ outcome' = "404"
      /\ honoured' = NoRetryAfter
      /\ UNCHANGED <<last_success_time, max_retries, captcha_attempts, fetches,
                     failures_at_call,
                     seen503>>
      /\ UNCHANGED <<search, generated>>

\* lines 217-297: not found
On404 ==
    \E r \in Responses :
      /\ Get(r)
      /\ ~IsCaptchaPage(r)
      /\ r.status = 404
      /\ Commit(Received(r))
      /\ ReturnNone(r)
      /\ outcome' = "404"
      /\ honoured' = NoRetryAfter
      /\ UNCHANGED <<last_success_time, max_retries, captcha_attempts, fetches,
                     failures_at_call,
                     seen503>>
      /\ UNCHANGED <<search, generated>>

\* lines 217-304: any other status
OnOtherStatus ==
    \E r \in Responses :
      /\ Get(r)
      /\ ~IsCaptchaPage(r)
      /\ r.status \notin {200, 503, 429, 403, 404}
      /\ \E u \in Draws :
           LET s1 == Failed(Received(r))
           IN  Commit(IF AttemptsRemain
                        THEN AdaptiveDelayStrategy(s1, attempt, None, u)
                        ELSE s1)
      /\ Continue
      /\ outcome' = "other"
      /\ honoured' = NoRetryAfter
      /\ UNCHANGED <<last_success_time, max_retries, captcha_attempts, fetches,
                     failures_at_call,
                     seen503>>
      /\ UNCHANGED <<search, generated>>

\* lines 306-317: except Exception
ExceptHandler ==
    /\ pc = "except"
    /\ \E u1 \in Draws, u2 \in Draws :
         LET s1 == Failed(Session)
             s2 == AdaptiveDelayStrategy(s1, attempt, None, u1)
             s3 == IF s2.cf >= 3 THEN IntelligentBackoff(s2, s2.cf, u2) ELSE s2
         IN  IF AttemptsRemain
               THEN Commit(s3) /\ Continue
               ELSE Commit(s1) /\ ReturnNone(NoResponse)
    /\ outcome' = "exception"
    /\ UNCHANGED <<last_success_time, max_retries, captcha_attempts, fetches,
                   failures_at_call,
                   gets, honoured, seen503>>
    /\ UNCHANGED <<search, generated>>

FinalBackoffThresholdSix == 5 + 1

\* line 324: if self._consecutive_failures >= 5
FinalBackoffThreshold == 5

\* lines 319-327: the loop has run out
AllAttemptsFailed ==
    /\ pc = "loop"
    /\ attempt >= max_retries
    /\ \E u \in Draws :
         LET s1 == Failed([Session EXCEPT !.sleeps = << >>])
         IN  Commit(IF s1.cf >= FinalBackoffThreshold
                      THEN IntelligentBackoff(s1, s1.cf, u)
                      ELSE s1)
    /\ ReturnNone(NoResponse)
    /\ UNCHANGED <<last_success_time, max_retries, captcha_attempts, fetches,
                   failures_at_call,
                   gets, outcome, honoured, seen503>>
    /\ UNCHANGED <<search, generated>>

Next ==
    \/ \E mr \in 0..MaxRetriesBound : MakeRequest(mr)
    \/ BeginAttempt
    \/ SendGet
    \/ ClientGetRaises
    \/ OnCaptcha
    \/ On200
    \/ On503
    \/ On429
    \/ On403
    \/ On404
    \/ OnOtherStatus
    \/ ExceptHandler
    \/ AllAttemptsFailed

Spec == Init /\ [][Next]_vars

\* the awaited sleep or transport call of the running fetch returns, and the
\* fetch runs on to its next await or to its return
Resumes ==
    \/ BeginAttempt
    \/ SendGet
    \/ ClientGetRaises
    \/ OnCaptcha
    \/ On200
    \/ On503
    \/ On429
    \/ On403
    \/ On404
    \/ OnOtherStatus
    \/ ExceptHandler
    \/ AllAttemptsFailed

\* ------------------------------------------------------------ direct calls
\* consecutive failure counts _intelligent_backoff is called with: 0..MaxFailures
MaxFailures == 7

\* a scraper in any session state, before a direct call of one of its methods
InitBackoff ==
    /\ consecutive_failures \in 0..MaxFailures
    /\ last_error_code \in Statuses \cup {None}
    /\ session_cookies \in ResponseJars
    /\ last_success_time = None
    /\ client_open \in BOOLEAN
    /\ pc = "idle"
    /\ max_retries = 0
    /\ attempt = 0
    /\ captcha_attempts = 0
    /\ response = NoResponse
    /\ result = "pending"
    /\ fetches = 0
    /\ gets = 0
    /\ sleeps = << >>
    /\ resets = 0
    /\ outcome = "none"
    /\ honoured = NoRetryAfter
    /\ counted = 0
    /\ failures_at_call = 0
    /\ seen503 = 0
    /\ delays503 = 0
    /\ session_warmed = FALSE
    /\ include_reviews = FALSE
    /\ awaiting = "none"
    /\ links = 0
    /\ books = 0
    /\ searches = 0
    /\ warmups = 0
    /\ home_fetches = 0
    /\ books_fetches = 0
    /\ generated = NotGenerated

\* await self._intelligent_backoff(n)
CallIntelligentBackoff(n) ==
    /\ pc = "idle"
    /\ \E u \in Draws : Commit(IntelligentBackoff(Session, n, u))
    /\ pc' = "done"
    /\ UNCHANGED <<last_success_time, max_retries, attempt, captcha_attempts,
                   response, result, fetches,
                   failures_at_call, gets, outcome, honoured, seen503>>
    /\ UNCHANGED <<search, generated>>

NextBackoff == \E n \in 0..MaxFailures : CallIntelligentBackoff(n)

SpecBackoff == InitBackoff /\ [][NextBackoff]_vars

\* encounter indices _handle_captcha_scenario is called with: 0..MaxCaptchaIndex
MaxCaptchaIndex == 4

\* lines 542-573: await self._handle_captcha_scenario(response, idx), up to
\* the end of its sleep
CallHandleCaptchaScenario(idx) ==
    /\ pc = "idle"
    /\ \E u \in Draws : Commit(HandleCaptchaScenario(Session, idx, u))
    /\ captcha_attempts' = idx + 1
    /\ pc' = "slept"
    /\ UNCHANGED <<last_success_time, max_retries, attempt, response, result,
                   fetches, failures_at_call, gets, outcome, honoured, seen503>>
    /\ UNCHANGED <<search, generated>>

\* line 576: return attempt < 3
ReturnCaptchaDecision ==
    /\ pc = "slept"
    /\ pc' = "done"
    /\ result' = IF CaptchaContinue(captcha_attempts - 1) THEN "True" ELSE "False"
    /\ UNCHANGED <<scraper, max_retries, attempt, captcha_attempts, response,
                   history, search, generated>>

NextCaptcha ==
    \/ \E idx \in 0..MaxCaptchaIndex : CallHandleCaptchaScenario(idx)
    \/ ReturnCaptchaDecision

SpecCaptcha == InitBackoff /\ [][NextCaptcha]_vars

\* attempt indices _adaptive_delay_strategy is called with: 0..MaxAttemptIndex
MaxAttemptIndex == 9

\* await self._adaptive_delay_strategy(idx, code)
CallAdaptiveDelayStrategy(idx, code) ==
    /\ pc = "idle"
    /\ \E u \in Draws : Commit(AdaptiveDelayStrategy(Session, idx, code, u))
    /\ pc' = "done"
    /\ UNCHANGED <<last_success_time, max_retries, attempt, captcha_attempts,
                   response, result, fetches,
                   failures_at_call, gets, outcome, honoured, seen503>>
    /\ UNCHANGED <<search, generated>>

NextAdaptive ==
    \E idx \in 0..MaxAttemptIndex, code \in Statuses \cup {None} :
        CallAdaptiveDelayStrategy(idx, code)

SpecAdaptive == InitBackoff /\ [][NextAdaptive]_vars

\* random.choice(options) where the call reaches it; one value stands for a
\* choice the call does not make
Choice(reached, options) ==
    IF reached THEN options ELSE {CHOOSE o \in options : TRUE}

\* headers = self._get_realistic_headers(url), with each random choice and
\* each outcome of "random.random() < p" of lines 429-490
CallGetRealisticHeaders(url) ==
    /\ pc = "idle"
    /\ \E user_agent \in user_agents, language \in AcceptLanguages,
          site \in SecFetchSites, cache \in CacheControls,
          omitted \in SUBSET OmittableHeaders :
       \E referrer \in Choice(url.given /\ url.amazon /\ ~url.search
                                 /\ ~url.product, Referrers),
          chrome_version \in Choice(Contains(user_agent, "Chrome"),
                                    ChromeVersions),
          platform \in Choice(Contains(user_agent, "Chrome"), Platforms),
          arch \in Choice(Contains(user_agent, "Chrome"), Archs),
          firefox_site \in Choice(~Contains(user_agent, "Chrome")
                                     /\ Contains(user_agent, "Firefox"),
                                  FirefoxSecFetchSites) :
         LET h1 == base_headers(user_agent, language, site, cache)
             h2 == WithReferer(h1, url, referrer)
             h3 == WithBrowserHeaders(h2, user_agent, chrome_version, platform,
                                      arch, firefox_site)
         IN  generated' = [url |-> url, user_agent |-> user_agent,
                           headers |-> Pop(h3, omitted)]
    /\ pc' = "done"
    /\ UNCHANGED <<scraper, max_retries, attempt, captcha_attempts, response,
                   result, history, search>>

NextHeaders == \E url \in Urls : CallGetRealisticHeaders(url)

SpecHeaders == Init /\ [][NextHeaders]_vars

\* ------------------------------------------------------------ first fetch
\* the first fetch of a scraper, with one more attempt than MaxRetriesBound
DeepRetries == MaxRetriesBound + 1

\* the first call of self._make_request(url, max_retries) on a scraper
FirstFetch(mr) ==
    /\ pc = "idle"
    /\ fetches = 0
    /\ Call(mr, << >>)
    /\ UNCHANGED <<search, generated>>

NextFirstFetch ==
    \/ \E mr \in 0..DeepRetries : FirstFetch(mr)
    \/ BeginAttempt
    \/ SendGet
    \/ ClientGetRaises
    \/ OnCaptcha
    \/ On200
    \/ On503
    \/ On429
    \/ On403
    \/ On404
    \/ OnOtherStatus
    \/ ExceptHandler
    \/ AllAttemptsFailed

SpecFirstFetch == Init /\ [][NextFirstFetch]_vars

\* the first fetch on an event loop that resumes a coroutine whose awaited
\* call has returned
SpecFetchFair == SpecFirstFetch /\ WF_vars(Resumes)

\* ------------------------------------------------------------ search_books
\* search_books calls made on one scraper
MaxSearches == 2
\* book links _extract_book_links finds on a search page: 0..MaxLinks
MaxLinks == 2

\* max_results = self.config.get('maxResults', 100) of the run
MaxResults == 2

\* line 193: max_retries: int = 3
DefaultMaxRetries == 3

\* a sleep of search_books or _warm_up_session between two fetches
Pause(kind, secs) ==
    <<[kind |-> kind, secs |-> secs, code |-> None, idx |-> 0]>>

\* the scraper of a run, with either setting of includeReviews
InitSearch ==
    /\ Fresh
    /\ include_reviews \in BOOLEAN

SearchBooksUnawaited ==
    /\ searches < MaxSearches
    /\ searches' = searches + 1
    /\ links' = 0
    /\ books' = 0
    /\ IF ~session_warmed
         THEN /\ warmups' = warmups + 1
              /\ home_fetches' = home_fetches + 1
              /\ awaiting' = "home"
         ELSE /\ awaiting' = "search"
              /\ UNCHANGED <<warmups, home_fetches>>
    /\ Call(DefaultMaxRetries, << >>)
    /\ UNCHANGED <<session_warmed, include_reviews, generated, books_fetches>>

\* lines 135-140 and 62-66, or 135-145: search_books is called; when the
\* scraper has no attribute _session_warmed it starts _warm_up_session, which
\* fetches the site root, else it fetches the search page
SearchBooks ==
    /\ awaiting \in {"none", "returned", "raised"}
    /\ pc \in {"idle", "done"}
    /\ searches < MaxSearches
    /\ searches' = searches + 1
    /\ links' = 0
    /\ books' = 0
    /\ IF ~session_warmed
         THEN /\ warmups' = warmups + 1
              /\ home_fetches' = home_fetches + 1
              /\ awaiting' = "home"
         ELSE /\ awaiting' = "search"
              /\ UNCHANGED <<warmups, home_fetches>>
    /\ Call(DefaultMaxRetries, << >>)
    /\ UNCHANGED <<session_warmed, include_reviews, generated, books_fetches>>

WarmedUpUnmarked(slept) ==
    /\ session_warmed' = session_warmed
    /\ awaiting' = "search"
    /\ Call(DefaultMaxRetries, slept)

\* lines 140-145: _warm_up_session has returned: the session is marked
\* warmed and the search page is fetched
WarmedUp(slept) ==
    /\ session_warmed' = TRUE
    /\ awaiting' = "search"
    /\ Call(DefaultMaxRetries, slept)

\* lines 66-89: the fetch of the site root has ended
AfterHome ==
    /\ awaiting = "home"
    /\ pc = "done"
    /\ IF result = "response" /\ response.status = 200
         THEN \E u \in Draws, visit \in BOOLEAN :
                LET read == Pause("reading", Uniform(Sec(2), Sec(5), u))
                IN  IF visit
                      THEN /\ awaiting' = "books"
                           /\ books_fetches' = books_fetches + 1
                           /\ session_warmed' = session_warmed
                           /\ Call(DefaultMaxRetries, read)
                      ELSE /\ WarmedUp(read)
                           /\ books_fetches' = books_fetches
         ELSE /\ WarmedUp(<< >>)
              /\ books_fetches' = books_fetches
    /\ UNCHANGED <<include_reviews, generated, links, books, searches, warmups,
                   home_fetches>>

\* lines 75-82: the fetch of the books section has ended
AfterBooks ==
    /\ awaiting = "books"
    /\ pc = "done"
    /\ IF result = "response" /\ response.status = 200
         THEN \E u \in Draws :
                WarmedUp(Pause("reading", Uniform(Sec(1), Sec(3), u)))
         ELSE WarmedUp(<< >>)
    /\ UNCHANGED <<include_reviews, generated, links, books, searches, warmups,
                   home_fetches, books_fetches>>

\* search_books ends: it returns its list, or an exception leaves it
Ends(how) ==
    /\ awaiting' = how
    /\ UNCHANGED <<scraper, frame, history>>

\* lines 155-159: the next book link, after the request delay
NextLink ==
    IF links > 0
      THEN /\ links' = links - 1
           /\ awaiting' = "detail"
           /\ Call(DefaultMaxRetries, Pause("request_delay", Sec(RequestDelay)))
      ELSE /\ links' = links
           /\ Ends("returned")

\* lines 145-159: the fetch of the search page has ended
AfterSearch ==
    /\ awaiting = "search"
    /\ pc = "done"
    /\ IF result = "raised"
         THEN Ends("raised") /\ links' = links
         ELSE IF result # "response"
           THEN Ends("returned") /\ links' = links
           ELSE \E n \in 0..MaxLinks :
                  LET kept == Min(n, MaxResults)
                  IN  IF kept = 0
                        THEN Ends("returned") /\ links' = 0
                        ELSE /\ links' = kept - 1
                             /\ awaiting' = "detail"
                             /\ Call(DefaultMaxRetries, << >>)
    /\ UNCHANGED <<session_warmed, include_reviews, generated, books, searches,
                   warmups, home_fetches, books_fetches>>

\* the records _scrape_book_details builds: rating and price are nested
\* dicts (lines 364-375, 402-415)
BookRecords ==
    { [rating |-> [stars |-> s, count |-> None],
       price |-> [value |-> v, currency |-> c]] :
        s \in {None, 4}, v \in {None, 3}, c \in {None, 1} }

\* the truth value of a dict: it is not empty
Truthy(dict) == DOMAIN dict # {}

\* lines 905-915: the comparisons of _meets_criteria are made on the nested
\* dicts; a dict compared with a number raises TypeError
MeetsCriteriaRaises(book) == Truthy(book.rating) \/ Truthy(book.price)

\* lines 160-161: the scraped record is tested and kept
Judged ==
    \E book \in BookRecords :
      IF MeetsCriteriaRaises(book)
        THEN Ends("raised") /\ UNCHANGED <<links, books>>
        ELSE books' = books + 1 /\ NextLink

AfterDetailStopsOnFailure ==
    /\ awaiting = "detail"
    /\ pc = "done"
    /\ IF result # "response"
         THEN Ends("returned") /\ UNCHANGED <<links, books>>
         ELSE IF include_reviews
           THEN \E asin \in BOOLEAN :
                  IF asin
                    THEN /\ awaiting' = "reviews"
                         /\ Call(DefaultMaxRetries, << >>)
                         /\ UNCHANGED <<links, books>>
                    ELSE Judged
           ELSE Judged
    /\ UNCHANGED <<session_warmed, include_reviews, generated, searches,
                   warmups, home_fetches, books_fetches>>

\* lines 159 and 348-424: the fetch of a book page has ended
AfterDetail ==
    /\ awaiting = "detail"
    /\ pc = "done"
    /\ IF result = "raised"
         THEN Ends("raised") /\ UNCHANGED <<links, books>>
         ELSE IF result # "response"
           THEN NextLink /\ books' = books
           ELSE IF include_reviews
             THEN \E asin \in BOOLEAN :
                    IF asin
                      THEN /\ awaiting' = "reviews"
                           /\ Call(DefaultMaxRetries, << >>)
                           /\ UNCHANGED <<links, books>>
                      ELSE Judged
             ELSE Judged
    /\ UNCHANGED <<session_warmed, include_reviews, generated, searches,
                   warmups, home_fetches, books_fetches>>

\* lines 422 and 843-862: the fetch of the reviews page has ended
AfterReviews ==
    /\ awaiting = "reviews"
    /\ pc = "done"
    /\ IF result = "raised"
         THEN Ends("raised") /\ UNCHANGED <<links, books>>
         ELSE Judged
    /\ UNCHANGED <<session_warmed, include_reviews, generated, searches,
                   warmups, home_fetches, books_fetches>>

NextSearch ==
    \/ SearchBooks
    \/ AfterHome
    \/ AfterBooks
    \/ AfterSearch
    \/ AfterDetail
    \/ AfterReviews
    \/ BeginAttempt
    \/ SendGet
    \/ ClientGetRaises
    \/ OnCaptcha
    \/ On200
    \/ On503
    \/ On429
    \/ On403
    \/ On404
    \/ OnOtherStatus
    \/ ExceptHandler
    \/ AllAttemptsFailed

SpecSearch == InitSearch /\ [][NextSearch]_vars

\* ------------------------------------------------------------ claims
Last(s) == s[Len(s)]

\* the running fetch has made all its attempts and has ended without success
Exhausted ==
    /\ pc = "done"
    /\ result = "None"
    /\ gets = max_retries
    /\ outcome # "404"

\* the last attempt of the running fetch has received the status code
GotStatus(code) ==
    \/ outcome = "captcha" /\ last_error_code = code
    \/ code = 200 /\ outcome = "ok"
    \/ code = 404 /\ outcome = "404"

\* C1: a logical fetch ends by returning a response or None; no exception
\* raised by the transport (or by any other line of the attempt) leaves
\* _make_request, whatever the outcomes of the attempts and whatever
\* max_retries.
C1_NoExceptionPropagates ==
    /\ result # "raised"
    /\ pc = "done" => result \in {"response", "None"}

\* a fetch whose last attempt has raised has returned None
C1_Witness ==
    /\ pc = "done"
    /\ result = "None"
    /\ outcome = "exception"
    /\ attempt = max_retries - 1

C3_ZeroAfterAny200 ==
    GotStatus(200) => consecutive_failures = 0

\* C3 amended: consecutive_failures is 0 right after an attempt that
\* receives a 200 response that is not a CAPTCHA page, and no other step
\* (attempt, wait, backoff, session reset, start of a fetch) decreases it.
C3_ZeroOnSuccessElseMonotone ==
    [][ IF pc = "wait" /\ response'.status = 200 /\ ~IsCaptchaPage(response')
          THEN consecutive_failures' = 0
          ELSE consecutive_failures' >= consecutive_failures ]_vars

\* a success that ends a failure streak
C3_Witness ==
    /\ outcome = "ok"
    /\ consecutive_failures = 0
    /\ attempt > 0
    /\ result = "response"

\* the scenario of C4: max_retries = 3 and the attempts have answered
\* 503, 503, 200
Scenario503503200 ==
    /\ pc = "done"
    /\ max_retries = 3
    /\ attempt = 2
    /\ seen503 = 2
    /\ outcome = "ok"

\* C4 as stated: the scenario returns the 200 response after exactly two
\* delays computed with the 503 formula, consecutive_failures is 0.
C4_TwoDelays ==
    Scenario503503200 =>
        /\ result = "response"
        /\ delays503 = 2
        /\ consecutive_failures = 0

\* C4 amended: the scenario returns the 200 response after exactly four
\* delays computed with the 503 formula (one after each 503 and one before
\* each of the two retries), consecutive_failures is 0.
C4_FourDelays ==
    Scenario503503200 =>
        /\ result = "response"
        /\ response.status = 200
        /\ delays503 = 4
        /\ consecutive_failures = 0

C4_Witness == Scenario503503200 /\ fetches = 1

\* C5: after a session reset the scraper holds an open transport.
C5_OpenTransportAfterReset ==
    resets > 0 => client_open

\* the increment of consecutive_failures made by this step is one that calls
\* _intelligent_backoff at the value 3
ResetCause ==
    /\ pc \in {"wait", "except"}
    /\ outcome' \in {"503", "403", "exception"}
    /\ AttemptsRemain

\* C6 as stated: every step that takes consecutive_failures from 2 to 3
\* performs exactly one session reset.
C6_ResetOnEveryTransition ==
    [][ consecutive_failures = 2 /\ consecutive_failures' = 3
          => resets' = resets + 1 ]_vars

\* C6 amended: a step that takes consecutive_failures from 2 to 3 performs
\* exactly one session reset when it handles a non-CAPTCHA 503, a
\* non-CAPTCHA 403 or an exception on an attempt that is not the last of its
\* fetch, and no reset otherwise; no later step resets at the value 3.
C6_ResetOnBackoffTransition ==
    [][ /\ consecutive_failures = 2 /\ consecutive_failures' = 3
            => resets' = resets + (IF ResetCause THEN 1 ELSE 0)
        /\ consecutive_failures = 3 /\ consecutive_failures' = 3
            => resets' = resets \/ pc \in {"idle", "done"} ]_vars

\* the reset of the transition 2 -> 3, made after a 503
C6_Witness ==
    /\ consecutive_failures = 3
    /\ resets = 1
    /\ outcome = "503"
    /\ pc = "loop"

\* C7: _intelligent_backoff(n) resets the session if and only if n = 3 or
\* n > 5; for n <= 2 it waits 5-15 s and for n in {4, 5} 30-90 s, leaving
\* cookies, last error code and transport as they are; for n > 5 it resets
\* and waits 300-600 s.
C7_BackoffTiers ==
    [][ pc = "idle" /\ pc' = "done" =>
          LET n == Last(sleeps').idx
              wait == Last(sleeps').secs
              reset == resets' = resets + 1
              same == /\ session_cookies' = session_cookies
                      /\ last_error_code' = last_error_code
                      /\ client_open' = client_open
                      /\ resets' = resets
          IN  /\ Last(sleeps').kind = "backoff"
              /\ Len(sleeps') = 1
              /\ reset \/ same
              /\ reset <=> (n = 3 \/ n > 5)
              /\ n <= 2 => same /\ wait \in Sec(5)..Sec(15)
              /\ n \in {4, 5} => same /\ wait \in Sec(30)..Sec(90)
              /\ n > 5 => reset /\ wait \in Sec(300)..Sec(600)
              /\ consecutive_failures' = consecutive_failures ]_vars

\* a call with n = 5 that has left the cookies and the transport alone
C7_Witness ==
    /\ pc = "done"
    /\ fetches = 0
    /\ Len(sleeps) = 1
    /\ sleeps[1].kind = "backoff"
    /\ sleeps[1].idx = 5
    /\ session_cookies # EmptyJar
    /\ client_open

\* the exhaustion code after the loop has run: one more increment, and the
\* intelligent backoff when the count has reached 5
ExhaustionHandled ==
    /\ counted = (IF gets = 0 THEN 1 ELSE 2)
    /\ consecutive_failures >= 5 =>
         /\ Len(sleeps) = 1
         /\ sleeps[1].kind = "backoff"
         /\ sleeps[1].idx = consecutive_failures

\* C8 as stated: every fetch that uses up its attempts gets the extra
\* increment and, from 5 failures on, the intelligent backoff.
C8_ExhaustionAlwaysHandled ==
    Exhausted => ExhaustionHandled

\* C8 amended: when the last attempt ends in a non-CAPTCHA 503, 429, 403 or
\* unexpected status without raising (or max_retries is 0), the failures are
\* incremented once more and, from 5 on, the intelligent backoff runs before
\* None is returned; when the last attempt is a CAPTCHA or ends in the
\* exception handler, None is returned after that attempt's own increments,
\* with no further increment and no intelligent backoff.
C8_ExhaustionHandledAfterLoop ==
    Exhausted =>
        IF outcome \in {"captcha", "exception"}
          THEN /\ attempt = max_retries - 1
               /\ counted \in {1, 2}
               /\ counted = 2 => outcome = "exception" /\ last_error_code = 429
               /\ \A i \in DOMAIN sleeps : sleeps[i].kind # "backoff"
          ELSE /\ attempt = max_retries
               /\ outcome \in {"none", "503", "429", "403", "other"}
               /\ ExhaustionHandled
               /\ consecutive_failures < 5 => sleeps = << >>

\* a fetch that has run out after a 503 and has backed off at 5 failures
C8_Witness ==
    /\ Exhausted
    /\ outcome = "503"
    /\ consecutive_failures = 5
    /\ sleeps # << >>

\* C9 as stated: consecutive_failures increases only when an attempt ends in
\* 503, 429, 403, an exception or an unexpected status.
C9_OnlyRetryableClasses ==
    [][ consecutive_failures' > consecutive_failures =>
          \/ pc = "wait" /\ outcome' \in {"503", "429", "403", "other"}
          \/ pc = "except" /\ outcome' = "exception" ]_vars

\* C9 amended: consecutive_failures increases, by one, only when an attempt
\* receives a non-CAPTCHA 503, 429, 403 or unexpected status, when it receives
\* a CAPTCHA page (of any status), when the exception handler runs, or when
\* the loop has run out; a non-CAPTCHA 200 or 404, a wait, a reset and the
\* start of a fetch never increase it.
C9_IncrementSites ==
    [][ consecutive_failures' > consecutive_failures =>
          /\ consecutive_failures' = consecutive_failures + 1
          /\ \/ pc = "wait"
                  /\ outcome' \in {"503", "429", "403", "other", "captcha"}
             \/ pc = "except" /\ outcome' = "exception"
             \/ pc = "loop" /\ attempt >= max_retries /\ pc' = "done" ]_vars

\* an increment made by a CAPTCHA page served with status 200
C9_Witness ==
    /\ outcome = "captcha"
    /\ last_error_code = 200
    /\ consecutive_failures = 1
    /\ pc = "loop"

\* the sleeps of the running attempt that are adaptive delays
AdaptiveSleeps == { i \in DOMAIN sleeps : sleeps[i].kind = "adaptive" }

\* C10 as stated: after a non-CAPTCHA 429 with a decimal Retry-After r the
\* wait is r plus 5-15 s and no adaptive delay is computed for that 429
\* before the next GET.
C10_NoAdaptiveDelay ==
    honoured # NoRetryAfter /\ pc \in {"loop", "get"} =>
        /\ pc = "loop" =>
             /\ Len(sleeps) = 1
             /\ sleeps[1].kind = "retry_after"
             /\ sleeps[1].secs \in (Sec(honoured) + Sec(5))..(Sec(honoured) + Sec(15))
        /\ AdaptiveSleeps = {}

\* C10 amended: after a non-CAPTCHA 429 with a decimal Retry-After r the wait
\* made for that response is r plus 5-15 s and nothing else; when the fetch
\* goes on to another attempt, that attempt still sleeps one adaptive delay
\* computed with the 429 formula before its GET.
C10_RetryAfterThenAdaptive ==
    honoured # NoRetryAfter /\ pc \in {"loop", "get"} =>
        /\ outcome = "429"
        /\ pc = "loop" =>
             /\ Len(sleeps) = 1
             /\ sleeps[1].kind = "retry_after"
             /\ sleeps[1].secs \in (Sec(honoured) + Sec(5))..(Sec(honoured) + Sec(15))
        /\ pc = "get" =>
             /\ AdaptiveSleeps = {1}
             /\ sleeps[1].code = 429
             /\ sleeps[1].idx = attempt

\* the attempt after a 429 with Retry-After: 12
C10_Witness ==
    /\ honoured = 12
    /\ pc = "get"

\* C11: in a fetch with max_retries = 2 whose two attempts both receive a
\* CAPTCHA page, the first encounter is handled with index 0 (one wait of
\* 10-20 s, then the next attempt) and the second with index 1 (one wait of
\* 30-60 s), after which the fetch has returned None with exactly two GETs.
C11_TwoCaptchas ==
    [][ max_retries = 2 /\ pc = "wait" /\ captcha_attempts' = captcha_attempts + 1 =>
          /\ Len(sleeps') = 1
          /\ sleeps'[1].kind = "captcha"
          /\ attempt = 0 =>
               /\ sleeps'[1].idx = 0
               /\ sleeps'[1].secs \in Sec(10)..Sec(20)
               /\ pc' = "loop"
               /\ attempt' = 1
               /\ result' = "pending"
               /\ gets' = 1
          /\ attempt = 1 /\ captcha_attempts = 1 =>
               /\ sleeps'[1].idx = 1
               /\ sleeps'[1].secs \in Sec(30)..Sec(60)
               /\ pc' = "done"
               /\ result' = "None"
               /\ gets' = 2
      ]_vars

\* the fetch with max_retries = 2 has ended after two CAPTCHA pages
C11_Witness ==
    /\ max_retries = 2
    /\ pc = "done"
    /\ result = "None"
    /\ captcha_attempts = 2
    /\ gets = 2
    /\ Last(sleeps).kind = "captcha"

\* the wait range of _handle_captcha_scenario for an encounter index
CaptchaRange(idx) ==
    IF idx = 0 THEN Sec(10)..Sec(20)
    ELSE IF idx = 1 THEN Sec(30)..Sec(60)
    ELSE IF idx = 2 THEN Sec(120)..Sec(300)
    ELSE Sec(600)..Sec(1200)

\* C12: _handle_captcha_scenario(response, idx) returns True for idx in
\* {0, 1, 2} and False for idx >= 3, after one wait in 10-20 s, 30-60 s,
\* 120-300 s and 600-1200 s respectively; the wait is made before the
\* decision is returned.
C12_CaptchaEscalation ==
    LET idx == captcha_attempts - 1
    IN  /\ pc = "slept" =>
             /\ result = "pending"
             /\ Len(sleeps) = 1
        /\ pc \in {"slept", "done"} =>
             /\ Len(sleeps) = 1
             /\ sleeps[1].kind = "captcha"
             /\ sleeps[1].idx = idx
             /\ sleeps[1].secs \in CaptchaRange(idx)
        /\ pc = "done" =>
             result = IF idx \in {0, 1, 2} THEN "True" ELSE "False"

\* the call with index 3 has returned False
C12_Witness ==
    /\ pc = "done"
    /\ captcha_attempts - 1 = 3
    /\ result = "False"

\* C13: for every error code, and for each value of the jitter, the delay
\* _adaptive_delay_strategy computes before min(delay, 600) does not decrease
\* when the attempt index grows, and the delay it sleeps is at most 600 s.
C13_MonotoneAndCapped ==
    pc = "done" =>
        LET r == Last(sleeps)
        IN  /\ r.kind = "adaptive"
            /\ r.secs <= Sec(600)
            /\ \A u \in Draws :
                 \A i \in 0..(r.idx - 1) :
                    AdaptiveRaw(i, r.code, u) <= AdaptiveRaw(i + 1, r.code, u)
            /\ \A u \in Draws :
                 AdaptiveRaw(r.idx, r.code, u) <= Sec(600) =>
                    AdaptiveDelay(r.idx, r.code, u) = AdaptiveRaw(r.idx, r.code, u)

\* a call whose computed delay is above 600 s and is slept as 600 s
C13_Witness ==
    /\ pc = "done"
    /\ Last(sleeps).kind = "adaptive"
    /\ Last(sleeps).idx > 0
    /\ Last(sleeps).code = 403
    /\ Last(sleeps).secs = Sec(600)
    /\ \A u \in Draws : AdaptiveRaw(Last(sleeps).idx, 403, u) > Sec(600)

\* C14: over any sequence of search_books calls on one scraper the warm-up
\* runs only during the first call, with at most one fetch of the site root
\* and at most one fetch of the books section; no exception leaves
\* search_books from the warm-up, and once the warm-up has ended the session
\* is marked warmed, whether its fetches succeeded or not.
C14_WarmUpOnce ==
    /\ warmups <= 1
    /\ home_fetches <= 1
    /\ books_fetches <= 1
    /\ awaiting \in {"home", "books"} =>
         /\ searches = 1
         /\ warmups = 1
         /\ ~session_warmed
    /\ awaiting \in {"search", "detail", "reviews", "returned", "raised"} =>
         /\ session_warmed
         /\ warmups = 1

\* the second search_books call fetches its search page, after a warm-up
\* whose fetch of the site root failed and no successful fetch since
C14_Witness ==
    /\ searches = 2
    /\ awaiting = "search"
    /\ pc = "get"
    /\ warmups = 1
    /\ books_fetches = 0
    /\ last_success_time = None

\* the formula of _adaptive_delay_strategy an error code selects
FormulaOf(code) == IF code \in {503, 429, 403} THEN code ELSE None

\* the attempt that has just ended ran a session reset: it made an
\* intelligent backoff with 3 or with more than 5 consecutive failures
ResetInAttempt ==
    \E i \in DOMAIN sleeps :
        sleeps[i].kind = "backoff" /\ (sleeps[i].idx = 3 \/ sleeps[i].idx > 5)

C16_OnlyNotFoundOrExhaustion ==
    pc = "done" /\ result = "None" =>
        \/ GotStatus(404)
        \/ gets = max_retries

\* C16 amended: a fetch returns None only when an attempt has received a
\* non-CAPTCHA 404, when all max_retries attempts have been made, or when it
\* has met its fourth CAPTCHA page; the fourth CAPTCHA page always ends the
\* fetch, and it does so before the last attempt only with max_retries >= 5.
C16_AlsoFourthCaptcha ==
    /\ pc = "done" /\ result = "None" =>
         \/ outcome = "404"
         \/ gets = max_retries
         \/ outcome = "captcha" /\ captcha_attempts = 4 /\ max_retries >= 5
    /\ pc = "loop" /\ outcome = "captcha" => captcha_attempts <= 3
    /\ captcha_attempts <= 4

\* a fetch with max_retries = 5 has ended on its fourth CAPTCHA page with one
\* attempt left
C16_Witness ==
    /\ pc = "done"
    /\ result = "None"
    /\ outcome = "captcha"
    /\ max_retries = 5
    /\ captcha_attempts = 4
    /\ gets = 4

\* C17 as stated: right after a session reset consecutive_failures is 0 and
\* the cookies are cleared.
C17_ResetZeroesCounter ==
    [][ resets' > resets =>
          /\ consecutive_failures' = 0
          /\ session_cookies' = EmptyJar
      ]_vars

\* C17 amended: a session reset clears the cookies and last_error_code and
\* leaves consecutive_failures at the value that has triggered it: the value
\* just incremented, which is 3 or more than 5.
C17_ResetKeepsCounter ==
    [][ resets' > resets =>
          /\ consecutive_failures' = consecutive_failures + 1
          /\ consecutive_failures' = 3 \/ consecutive_failures' > 5
          /\ session_cookies' = EmptyJar
          /\ last_error_code' = None
      ]_vars

\* a session that had cookies has been reset on its third failure
C17_Witness ==
    /\ resets > 0
    /\ consecutive_failures = 3
    /\ session_cookies = EmptyJar
    /\ last_success_time # None
    /\ pc = "loop"

\* C18: a session reset empties the cookie store and sets last_error_code to
\* None, issues no GET and starts no fetch, and leaves the warmed flag and the
\* warm-up alone; a fetch awaited by the warm-up starts no other warm-up.
C18_ResetFrame ==
    [][ /\ resets' > resets =>
             /\ session_cookies' = EmptyJar
             /\ last_error_code' = None
             /\ gets' = gets
             /\ fetches' = fetches
             /\ session_warmed' = session_warmed
             /\ awaiting' = awaiting
             /\ warmups' = warmups
             /\ home_fetches' = home_fetches
             /\ books_fetches' = books_fetches
        /\ awaiting \in {"home", "books"} =>
             /\ warmups' = warmups
             /\ home_fetches' = home_fetches
      ]_vars

\* the fetch of a search page has reset the session of a warmed scraper
C18_Witness ==
    /\ resets > 0
    /\ awaiting = "search"
    /\ session_warmed
    /\ warmups = 1
    /\ last_error_code = None
    /\ pc = "loop"

\* C19: every GET of a fetch is issued right after the sleeps of its own
\* attempt: exactly one human-pacing sleep of at least 0.8 x requestDelay,
\* preceded on attempts i > 0 by the adaptive delay, and by nothing else.
C19_PacedGet ==
    [][ gets' = gets + 1 =>
          /\ pc = "get"
          /\ Len(sleeps) = IF attempt > 0 THEN 2 ELSE 1
          /\ Last(sleeps).kind = "human"
          /\ Last(sleeps).secs * 10 >= 8 * Sec(RequestDelay)
          /\ Cardinality({ i \in DOMAIN sleeps : sleeps[i].kind = "human" }) = 1
          /\ attempt > 0 =>
               /\ sleeps[1].kind = "adaptive"
               /\ sleeps[1].idx = attempt
      ]_vars

\* the GET of the second attempt of a fetch has left
C19_Witness ==
    /\ pc = "wait"
    /\ attempt = 1
    /\ gets = 2

C21_CaptchaIndexLocal ==
    [][ IF pc \in {"idle", "done"} /\ pc' = "loop"
          THEN /\ captcha_attempts' = 0
               /\ consecutive_failures' = consecutive_failures
          ELSE IF pc = "wait" /\ pc' \in {"loop", "done"} /\ outcome' = "captcha"
            THEN /\ captcha_attempts' = captcha_attempts + 1
                 /\ captcha_attempts <= attempt
                 /\ Len(sleeps') = 1
                 /\ sleeps'[1].kind = "captcha"
                 /\ sleeps'[1].idx = captcha_attempts
                 /\ sleeps'[1].secs \in CaptchaRange(captcha_attempts)
                 /\ attempt = 0 => sleeps'[1].secs \in Sec(10)..Sec(20)
            ELSE captcha_attempts' = captcha_attempts
      ]_vars

\* the second fetch of a scraper whose count of consecutive failures stood
\* at 4 has met its first CAPTCHA page and has handled it with index 0
C21_Witness ==
    /\ fetches = 2
    /\ gets = 1
    /\ pc = "loop"
    /\ outcome = "captcha"
    /\ captcha_attempts = 1
    /\ consecutive_failures = 5
    /\ Last(sleeps).kind = "captcha"
    /\ Last(sleeps).idx = 0

\* C22: the step that returns a response (a non-CAPTCHA 200) leaves
\* consecutive_failures at 0 and last_error_code at None, stamps
\* last_success_time with the current time, and merges the received cookies
\* into the cookie store: every received name holds the received value and
\* every other stored name keeps its value.
C22_SuccessRecorded ==
    [][ pc = "wait" /\ result' = "response" =>
          /\ response'.status = 200
          /\ ~IsCaptchaPage(response')
          /\ consecutive_failures' = 0
          /\ last_error_code' = None
          /\ last_success_time' = Now
          /\ last_success_time' # None
          /\ DOMAIN session_cookies' =
                (DOMAIN session_cookies) \cup (DOMAIN response'.cookies)
          /\ \A n \in DOMAIN response'.cookies :
                session_cookies'[n] = response'.cookies[n]
          /\ \A n \in (DOMAIN session_cookies) \ (DOMAIN response'.cookies) :
                session_cookies'[n] = session_cookies[n]
      ]_vars

\* a success after failures whose cookie has overwritten one stored cookie
\* and has kept the other
C22_Witness ==
    /\ pc = "done"
    /\ result = "response"
    /\ attempt > 0
    /\ consecutive_failures = 0
    /\ last_error_code = None
    /\ last_success_time = 2
    /\ response.cookies = [n \in {"session-id"} |-> 1]
    /\ session_cookies = [n \in CookieNames |-> IF n = "session-id" THEN 1 ELSE 2]

\* C23: in a scraping run a fetch starts only when no fetch is running, a GET
\* leaves only from the running fetch and only when its previous GET has been
\* answered, the session fields are written by steps of the running fetch
\* only, and search_books moves on (to its next fetch, to its end or to the
\* next search_books call) only when the fetch it awaits has ended.
C23_FetchesSerialized ==
    [][ /\ fetches' # fetches =>
             /\ pc \in {"idle", "done"}
             /\ fetches' = fetches + 1
             /\ pc' = "loop"
        /\ gets' = gets + 1 =>
             /\ pc = "get"
             /\ pc' = "wait"
             /\ fetches' = fetches
        /\ scraper' # scraper =>
             /\ pc \in {"loop", "wait", "except"}
             /\ fetches' = fetches
             /\ awaiting' = awaiting
        /\ awaiting' # awaiting => pc \in {"idle", "done"}
        /\ searches' # searches =>
             /\ pc \in {"idle", "done"}
             /\ awaiting \in {"none", "returned", "raised"}
      ]_vars

\* the GET of a book page is in flight in the second search_books call of a
\* run, after the warm-up and the fetches of the first call
C23_Witness ==
    /\ searches = 2
    /\ warmups = 1
    /\ books_fetches = 1
    /\ awaiting = "detail"
    /\ pc = "wait"
    /\ fetches >= 5

\* the sec-ch-ua-* headers
ChromiumFamily ==
    {"sec-ch-ua", "sec-ch-ua-mobile", "sec-ch-ua-platform", "sec-ch-ua-arch",
     "sec-ch-ua-bitness", "sec-ch-ua-full-version-list"}

\* C24: the generated header set holds every sec-ch-ua-* header when the
\* chosen user agent contains the Chrome token and none of them otherwise;
\* for a Firefox user agent Sec-Fetch-Site is "none" or "same-origin", for
\* any other it is one of the three values; User-Agent, Accept,
\* Accept-Language and Accept-Encoding are always present, and of the basic
\* headers only Cache-Control, Upgrade-Insecure-Requests and DNT can miss.
C24_HeaderSet ==
    generated # NotGenerated =>
      LET headers == generated.headers
          user_agent == generated.user_agent
          present == DOMAIN headers
          basic == DOMAIN base_headers(user_agent, "en-US", "none", "no-cache")
      IN  /\ IF Contains(user_agent, "Chrome")
               THEN ChromiumFamily \subseteq present
               ELSE ChromiumFamily \cap present = {}
          /\ headers["Sec-Fetch-Site"] \in
               { Literal(s) : s \in IF Contains(user_agent, "Firefox")
                                      /\ ~Contains(user_agent, "Chrome")
                                      THEN {"none", "same-origin"}
                                      ELSE SecFetchSites }
          /\ {"User-Agent", "Accept", "Accept-Language", "Accept-Encoding"}
               \subseteq present
          /\ basic \ present \subseteq
               {"Cache-Control", "Upgrade-Insecure-Requests", "DNT"}
          /\ present \subseteq basic \cup ChromiumFamily \cup {"Referer"}

\* the header set of a Safari user agent: no sec-ch-ua-* header, a
\* Sec-Fetch-Site the Firefox choice excludes, and the three headers omitted
C24_Witness ==
    /\ generated # NotGenerated
    /\ ~Contains(generated.user_agent, "Chrome")
    /\ ~Contains(generated.user_agent, "Firefox")
    /\ generated.headers["Sec-Fetch-Site"] = Literal("cross-site")
    /\ DOMAIN generated.headers =
         {"User-Agent", "Accept", "Accept-Language", "Accept-Encoding",
          "Connection", "Sec-Fetch-Dest", "Sec-Fetch-Mode", "Sec-Fetch-Site",
          "Sec-Fetch-User", "Referer"}

\* C25: a fetch issues at most max_retries GETs, the GET of the attempt with
\* index i is the (i + 1)-th GET of the fetch and the index moves by one from
\* one attempt to the next; a fetch called with max_retries = 0 ends with no
\* GET and returns None; and every fetch that has been called ends, with a
\* response or with None, when each of its awaited calls returns.
C25_BoundedAndTerminates ==
    /\ [](gets <= max_retries /\ attempt <= max_retries)
    /\ [](pc = "done" => result \in {"response", "None"})
    /\ [](pc = "done" /\ max_retries = 0 => gets = 0 /\ result = "None")
    /\ [][ /\ gets' = gets + 1 => attempt = gets /\ attempt < max_retries
           /\ pc # "idle" /\ pc # "done" =>
                /\ attempt' \in {attempt, attempt + 1}
                /\ gets' \in {gets, gets + 1}
                /\ attempt' = attempt + 1 => gets = attempt + 1 /\ pc' = "loop"
       ]_vars
    /\ (pc \in {"loop", "get", "wait", "except"}) ~> (pc = "done")

\* a fetch with max_retries = 5 has ended after five GETs without success
C25_Witness ==
    /\ pc = "done"
    /\ max_retries = 5
    /\ gets = 5
    /\ attempt = 5
    /\ result = "None"

\* C26: the step that handles a 403 response detected as a CAPTCHA page
\* advances the encounter count by one, makes exactly one wait, the CAPTCHA
\* wait of the encounter's index, and increments consecutive_failures exactly
\* once; it makes no adaptive delay and no intelligent backoff, and so no
\* session reset.
C26_Forbidden403Captcha ==
    [][ /\ pc = "wait"
        /\ pc' \in {"loop", "done"}
        /\ last_error_code' = 403
        /\ outcome' = "captcha"
        =>
          /\ captcha_attempts' = captcha_attempts + 1
          /\ consecutive_failures' = consecutive_failures + 1
          /\ counted' = 1
          /\ Len(sleeps') = 1
          /\ sleeps'[1].kind = "captcha"
          /\ sleeps'[1].idx = captcha_attempts
          /\ sleeps'[1].secs \in CaptchaRange(captcha_attempts)
          /\ resets' = resets
          /\ delays503' = delays503
          /\ pc' = "done" => /\ response'.status = 403
                             /\ IsCaptchaPage(response')
                             /\ result' = "None"
      ]_vars

\* the second consecutive failure of a scraper is a 403 CAPTCHA page with
\* attempts left: it has been handled by the CAPTCHA wait alone
C26_Witness ==
    /\ pc = "loop"
    /\ outcome = "captcha"
    /\ last_error_code = 403
    /\ consecutive_failures = 2
    /\ captcha_attempts = 1
    /\ attempt = 2
    /\ attempt < max_retries
    /\ sleeps = <<[kind |-> "captcha", secs |-> Sec(10), code |-> None, idx |-> 0]>>

C28_NotFoundFrame ==
    [][ /\ pc = "wait" /\ pc' = "done" /\ response'.status = 404
             /\ ~IsCaptchaPage(response') =>
             /\ result' = "None"
             /\ consecutive_failures' = consecutive_failures
             /\ session_cookies' = session_cookies
             /\ counted' = 0
             /\ sleeps' = << >>
             /\ resets' = resets
             /\ gets' = gets
        /\ pc \in {"loop", "get"} /\ pc' \in {"get", "wait"} =>
             /\ consecutive_failures' = consecutive_failures
             /\ session_cookies' = session_cookies
      ]_vars

\* the second attempt of a fetch has ended on a 404, with one failure
\* counted and the cookies of an earlier success in the store
C28_Witness ==
    /\ pc = "done"
    /\ result = "None"
    /\ response.status = 404
    /\ ~IsCaptchaPage(response)
    /\ attempt = 1
    /\ consecutive_failures = 1
    /\ session_cookies = [n \in CookieNames |-> 2]
    /\ sleeps = << >>

\* the body, the final URL or the headers of a page carry a CAPTCHA signature
CaptchaSignature(page) ==
    \/ page.content \in {"robot check", "enter the characters you see below"}
    \/ page.url \in {"/errors/validatecaptcha", "/dp/B000?ref=cs_503_logo"}
    \/ page.headers = "x-captcha"

\* C29: a fetch that has returned a response has returned a 200 response
\* whose body, URL and headers carry no CAPTCHA signature; the step that
\* receives a 200 response carrying one returns no response, counts one
\* failure and leaves last_success_time alone.
C29_ReturnedIsPlain200 ==
    /\ [](result = "response" =>
            /\ pc = "done"
            /\ response.status = 200
            /\ ~CaptchaSignature(response.page)
            /\ consecutive_failures = 0)
    /\ [][ pc = "wait" /\ pc' \in {"loop", "done"} /\ last_error_code' = 200 =>
             /\ result' # "response"
             /\ outcome' = "captcha"
             /\ consecutive_failures' = consecutive_failures + 1
             /\ last_success_time' = last_success_time
             /\ pc' = "done" => /\ result' = "None"
                                /\ response'.status = 200
                                /\ CaptchaSignature(response'.page)
       ]_vars

\* a fetch has ended with None on a 200 response whose only CAPTCHA
\* signature is in its headers
C29_Witness ==
    /\ pc = "done"
    /\ result = "None"
    /\ response.status = 200
    /\ response.page =
         [content |-> "book page", url |-> "/dp/B000", headers |-> "x-captcha"]
    /\ consecutive_failures = 1
    /\ last_success_time = None

\* the sleeps of _intelligent_backoff among the sleeps s
BackoffSleeps(s) == { i \in DOMAIN s : s[i].kind = "backoff" }

\* C30: a step that invokes _intelligent_backoff invokes it once, has
\* incremented consecutive_failures by one just before, and passes the
\* incremented value; consecutive_failures never decreases except to 0 on a
\* success, so the values passed grow strictly until the next success; the
\* invocation resets the session in the tier 3-5 only when the value is
\* exactly 3, that is on the step from 2 to 3 failures, which one failure
\* streak takes at most once.
C30_BackoffAfterIncrement ==
    [][ /\ sleeps' # sleeps /\ BackoffSleeps(sleeps') # {} =>
             /\ Cardinality(BackoffSleeps(sleeps')) = 1
             /\ Last(sleeps').kind = "backoff"
             /\ consecutive_failures' = consecutive_failures + 1
             /\ Last(sleeps').idx = consecutive_failures'
             /\ resets' \in {resets, resets + 1}
             /\ resets' = resets + 1 <=>
                  \/ consecutive_failures = 2
                  \/ consecutive_failures >= 5
        /\ resets' > resets =>
             /\ BackoffSleeps(sleeps') # {}
             /\ consecutive_failures' # 4
             /\ consecutive_failures' # 5
        /\ consecutive_failures' < consecutive_failures =>
             /\ consecutive_failures' = 0
             /\ result' = "response"
             /\ BackoffSleeps(sleeps') = {}
        /\ consecutive_failures' <= consecutive_failures + 1
      ]_vars

\* after a fetch that has reset the session at 3 failures, which closes the
\* client, the first attempt of the next fetch has failed as the fifth
\* failure of the streak: its invocation has seen 5 and has reset nothing
C30_Witness ==
    /\ fetches = 2
    /\ pc = "loop"
    /\ attempt = 1
    /\ consecutive_failures = 5
    /\ ~client_open
    /\ resets = 0
    /\ sleeps # << >>
    /\ Last(sleeps).kind = "backoff"
    /\ Last(sleeps).idx = 5

\* C31: self._consecutive_failures is never negative; a step of a fetch
\* raises it by 1, sets it to 0 or leaves it, and one attempt raises it at
\* most once; a fetch that has returned None has raised it, over its value
\* at the call, by at most max_retries + 1, and by at least 1 unless the
\* fetch has ended on a 404 answered to its first attempt. (Refuted: a 429
\* whose Retry-After passes isdigit() and fails int() is counted at line 259
\* and again by the handler of line 308.)
C31_FailureCounterBounds ==
    /\ [](consecutive_failures >= 0)
    /\ [][consecutive_failures' \in
            {0, consecutive_failures, consecutive_failures + 1}]_vars
    /\ [](pc \in {"loop", "get", "wait", "except"} => counted <= 1)
    /\ [](pc = "done" /\ result = "None" =>
            /\ consecutive_failures - failures_at_call <= max_retries + 1
            /\ \/ consecutive_failures - failures_at_call >= 1
               \/ outcome = "404" /\ attempt = 0 /\ gets = 1)

\* C32: the index _make_request passes to _handle_captcha_scenario is the
\* number of earlier CAPTCHA pages of the fetch and is at most
\* max_retries - 1; with max_retries <= 4 a fetch that ends on a CAPTCHA page
\* ends on its last attempt, so that the handler's refusal (index 3) never
\* shortens it; a fetch ends on a CAPTCHA page with attempts left only with
\* max_retries >= 5, on its fourth CAPTCHA page.
C32_AbortNeverShortens ==
    /\ outcome = "captcha" /\ pc \in {"loop", "done"} =>
         /\ sleeps # << >>
         /\ Last(sleeps).kind = "captcha"
         /\ Last(sleeps).idx = captcha_attempts - 1
         /\ Last(sleeps).idx <= max_retries - 1
    /\ pc = "done" /\ outcome = "captcha" /\ max_retries <= 4 =>
         /\ result = "None"
         /\ attempt = max_retries - 1
         /\ gets = max_retries
    /\ pc = "done" /\ outcome = "captcha" /\ attempt < max_retries - 1 =>
         /\ max_retries >= 5
         /\ captcha_attempts = 4

\* a fetch with max_retries = 4 has met a CAPTCHA page at each attempt: the
\* handler has refused at index 3, on the last attempt
C32_Witness ==
    /\ pc = "done"
    /\ result = "None"
    /\ outcome = "captcha"
    /\ max_retries = 4
    /\ attempt = 3
    /\ captcha_attempts = 4
    /\ sleeps # << >>
    /\ Last(sleeps).kind = "captcha"
    /\ Last(sleeps).idx = 3
    /\ ~CaptchaContinue(Last(sleeps).idx)

\* C33: search_books returns normally: no exception ends it, and once the
\* fetch of a book page has succeeded the scraped record is judged by
\* _meets_criteria, kept or dropped, and search_books goes on to the reviews
\* page, to the next link or to its return. (Refuted: the comparison of line
\* 906 is made on the nested dict of line 372 and raises TypeError.)
C33_MeetsCriteriaNeverRaises ==
    /\ [](awaiting # "raised")
    /\ [][awaiting = "detail" /\ pc = "done" /\ result = "response" =>
            /\ awaiting' \in {"reviews", "detail", "returned"}
            /\ books' \in {books, books + 1}]_vars

TypeOK ==
    /\ consecutive_failures \in Nat
    /\ failures_at_call \in Nat
    /\ last_error_code \in Statuses \cup {None}
    /\ client_open \in BOOLEAN
    /\ pc \in {"idle", "loop", "get", "wait", "except", "done", "slept"}
    /\ result \in {"pending", "response", "None", "raised", "True", "False"}
    /\ attempt \in 0..max_retries

====
